---- MODULE Spec2Model ----
(***************************************************************************)
(* State-machine model of the retail POS application (src/main.py,         *)
(* src/src/models.py): the relational store of users, products, orders     *)
(* and order items, and the menu operations of POSApplication that write   *)
(* it.  One operator drives one session, so an operation runs from its     *)
(* prompt to its return before the next one starts; process_sale is        *)
(* interactive and is modelled step by step (cart loop, confirmation, the  *)
(* commit of the Order row, the commit of the items and stock).  Each      *)
(* session.commit() either succeeds or raises, and the except branch of    *)
(* the operation then rolls the session back.  The locals of process_sale  *)
(* and the history variables keep their last values until the operator     *)
(* starts the next operation.                                              *)
(*                                                                         *)
(* Spec is the sales desk (products, sales, one account), SpecUsers the    *)
(* user administration, SpecModels the model layer under the sales,        *)
(* SpecConcurrent a sale with a second terminal on the same database,      *)
(* SpecLedger whole sales with the updates and deletes between them, and   *)
(* SpecViews the view layer (src/src/views.py) over the model layer.       *)
(*                                                                         *)
(* Prices are whole numbers of currency units (the source uses floats).    *)
(* Text is a sequence of one-character strings, so that str.strip() is     *)
(* computed rather than assumed.  A keyboard entry that has to be a number *)
(* is a record [kind, val]: kind "num" carries the value that int()/float()*)
(* returns, kind "bad" is an entry on which they raise ValueError.         *)
(***************************************************************************)
EXTENDS Integers, Sequences, FiniteSets, TLC

VARIABLES
    users,        \* table users:       id -> [name, email, is_active]
    products,     \* table products:    id -> [name, price, stock_quantity]
    orders,       \* table orders:      id -> [user_id, total_amount, status]
    order_items,  \* table order_items: id -> [order_id, product_id, quantity, unit_price]
    pc,           \* position of the operator: "menu", or inside process_sale
    user,         \* process_sale: id of the user the sale is made for (0: none)
    items,        \* process_sale: the cart, a sequence of [product, quantity, unit_price]
    total,        \* process_sale: running total of the cart
    order,        \* process_sale: id of the Order row created by this sale (0: none)
    refused,      \* history: whether a line of this sale was refused for lack of stock
    pre,          \* history: the store as it was when this sale, or this read, started
    last          \* history: the step that ran last and what it printed: [op, res, a, b]

store == <<users, products, orders, order_items>>
sale  == <<user, items, total, order, refused, pre>>
vars  == <<users, products, orders, order_items, pc, user, items, total, order, refused,
           pre, last>>

(***************************************************************************)
(* Bounds of the model.                                                    *)
(***************************************************************************)
MaxProducts == 2    \* rows of table products at any time
MaxUsers    == 2    \* rows of table users at any time
MaxCashiers == 1    \* rows of table users while the sales desk is modelled
MaxOrders   == 1    \* sales that reach the creation of an Order row
MaxLines    == 2    \* accepted lines of one cart
MaxStock    == 1    \* largest stock quantity an operator types
MaxPrice    == 2    \* largest price an operator types

(***************************************************************************)
(* Keyboard entries.                                                       *)
(***************************************************************************)
Bad == [kind |-> "bad", val |-> 0]
Num(v) == [kind |-> "num", val |-> v]
\* float("nan"): a float that no comparison holds for
NaN == [kind |-> "nan", val |-> 0]

\* names as typed, before strip(): blank, plain and padded entries
NameInputs == { <<" ">>, <<"a">>, <<" ", "a">>, <<"b", " ">> }
\* user names as typed
UserNameInputs == { <<" ">>, <<"a", " ">> }
\* emails as typed: blank, without '@', and two addresses (one padded)
EmailInputs == { <<" ">>, <<"x">>, <<" ", "x", "@">>, <<"y", "@">> }
\* ids as typed: a negative entry is not all digits, 0 and MaxProducts + 1 match no row
IdInputs == -1 .. (MaxProducts + 1)
PriceInputs == { Bad, NaN } \cup { Num(v) : v \in 0 .. MaxPrice }
StockInputs == { Bad } \cup { Num(v) : v \in -1 .. MaxStock }
QuantityInputs == { Bad } \cup { Num(v) : v \in 0 .. (MaxStock + 1) }
\* answers to a (y/n) prompt, after strip().lower()
ConfirmInputs == { "y", "n", "yes" }
\* choices of the update menus, after strip()
ActionInputs == { "1", "2", "3", "4", "9" }

(***************************************************************************)
(* Helpers: str.strip(), str.isdigit(), primary keys, rows.                *)
(***************************************************************************)
IsSpace(c) == c = " "

RECURSIVE lstrip(_)
lstrip(s) == IF s # <<>> /\ IsSpace(Head(s)) THEN lstrip(Tail(s)) ELSE s

RECURSIVE rstrip(_)
rstrip(s) == IF s # <<>> /\ IsSpace(s[Len(s)]) THEN rstrip(SubSeq(s, 1, Len(s) - 1)) ELSE s

strip(s) == rstrip(lstrip(s))

\* the decimal text of a negative number holds a '-', which is no digit
isdigit(n) == n >= 0

Max(S) == CHOOSE m \in S : \A x \in S : x <= m
Min(S) == CHOOSE m \in S : \A x \in S : m <= x

\* INTEGER PRIMARY KEY without AUTOINCREMENT: the next rowid is the largest one plus 1
NextId(table) == IF DOMAIN table = {} THEN 1 ELSE Max(DOMAIN table) + 1

\* Query.get(id): the row with that primary key, if any
Exists(table, id) == id \in DOMAIN table

Remove(table, ids) == [i \in DOMAIN table \ ids |-> table[i]]

\* the locals of process_sale outside a sale
NoStore == <<<<>>, <<>>, <<>>, <<>>>>

\* an operation other than process_sale starts at the menu: the locals of the last
\* sale are gone
ForgetSale ==
    /\ pc = "menu"
    /\ pc' = "menu"
    /\ user' = 0
    /\ items' = <<>>
    /\ total' = 0
    /\ order' = 0
    /\ refused' = FALSE
    /\ pre' = NoStore

\* what the last step was (op), what it reported (res) and the ids or numbers it
\* was given (a, b; 0 where the step takes none)
Report(op, res, a, b) == [op |-> op, res |-> res, a |-> a, b |-> b]

\* the test turned round, confirm == 'n'
Confirmed_whenNo(confirm) == confirm = "n"

\* confirm == 'y', the negation of the test confirm != 'y'
Confirmed(confirm) == confirm = "y"

\* the mark of the answer in a report: 1 for 'y', 0 for any other answer
Answer(confirm) == IF confirm = "y" THEN 1 ELSE 0

Init ==
    /\ users = <<>>
    /\ products = <<>>
    /\ orders = <<>>
    /\ order_items = <<>>
    /\ pc = "menu"
    /\ user = 0
    /\ items = <<>>
    /\ total = 0
    /\ order = 0
    /\ refused = FALSE
    /\ pre = NoStore
    /\ last = Report("init", "", 0, 0)

(***************************************************************************)
(* Product management.                                                     *)
(***************************************************************************)
\* session.query(Product).filter_by(name=name).first()
ProductNamed(name) == { p \in DOMAIN products : products[p].name = name }

\* the filter with Product.id == product.id in place of Product.id != product.id
OtherProductNamed_sameId(name, id) ==
    { p \in DOMAIN products : products[p].name = name /\ p = id }

\* session.query(Product).filter(Product.name == new_name, Product.id != product.id).first()
OtherProductNamed(name, id) == { p \in DOMAIN products : products[p].name = name /\ p # id }

\* Product.order_items
OrderItemsOfProduct(id) == { i \in DOMAIN order_items : order_items[i].product_id = id }

\* User.orders
OrdersOfUser(id) == { o \in DOMAIN orders : orders[o].user_id = id }

\* Order.order_items
OrderItemsOfOrder(id) == { i \in DOMAIN order_items : order_items[i].order_id = id }

\* the guard left out: no product counts as referenced
ProductIsReferenced_never(id) == FALSE

\* the query filtered on the wrong column, filter_by(order_id=product.id)
ProductIsReferenced_byOrderId(id) ==
    { i \in DOMAIN order_items : order_items[i].order_id = id } # {}

\* order_items = session.query(OrderItem).filter_by(product_id=product.id).all();
\* if order_items
ProductIsReferenced(id) ==
    { i \in DOMAIN order_items : order_items[i].product_id = id } # {}

\* the test order_count > 1 in place of order_count > 0
UserHasOrders_moreThanOne(id) ==
    Cardinality({ o \in DOMAIN orders : orders[o].user_id = id }) > 1

\* order_count = session.query(Order).filter_by(user_id=user.id).count();
\* if order_count > 0
UserHasOrders(id) ==
    Cardinality({ o \in DOMAIN orders : orders[o].user_id = id }) > 0

\* the test price < 0 in place of price <= 0
PriceNotPositive_zeroAllowed(price) == price.kind = "num" /\ price.val < 0

\* price <= 0, which is False for nan
PriceNotPositive(price) == price.kind = "num" /\ price.val <= 0

\* Product.price is nullable=False and sqlite3 binds nan as NULL: the INSERT or UPDATE
\* of a nan price raises IntegrityError at the commit
PriceNotNull(price) == price.kind # "nan"

\* add_product; the prompts follow one another, each asked only when the entries
\* before it were accepted; ok: whether session.commit() succeeds
add_product ==
    /\ ForgetSale
    /\ UNCHANGED <<users, orders, order_items>>
    /\ \E rawName \in NameInputs :
        LET name == strip(rawName) IN
        IF name = <<>> THEN
            /\ last' = Report("add_product", "invalid", 0, 0)
            /\ UNCHANGED products
        ELSE \E rawPrice \in PriceInputs :
            IF rawPrice.kind = "bad" \/ PriceNotPositive(rawPrice) THEN
                /\ last' = Report("add_product", "invalid", 0, 0)
                /\ UNCHANGED products
            ELSE \E rawStock \in StockInputs :
                IF rawStock.kind = "bad" \/ rawStock.val < 0 THEN
                    /\ last' = Report("add_product", "invalid", 0, 0)
                    /\ UNCHANGED products
                ELSE IF ProductNamed(name) # {} THEN
                    /\ last' = Report("add_product", "exists", 0, 0)
                    /\ UNCHANGED products
                ELSE \E ok \in BOOLEAN :
                    IF ~ok \/ ~PriceNotNull(rawPrice) THEN
                        \* session.commit() raises: rollback
                        /\ last' = Report("add_product", "failed", 0, 0)
                        /\ UNCHANGED products
                    ELSE
                        /\ Cardinality(DOMAIN products) < MaxProducts
                        /\ products' = products @@ (NextId(products) :>
                                [name |-> name, price |-> rawPrice.val,
                                 stock_quantity |-> rawStock.val])
                        /\ last' = Report("add_product", "ok", 0, 0)

\* the assignment made to every product, an UPDATE without its WHERE clause
WithPrice_everyProduct(prods, id, new_price) ==
    [p \in DOMAIN prods |-> [prods[p] EXCEPT !.price = new_price]]

\* product.price = new_price
WithPrice(prods, id, new_price) == [prods EXCEPT ![id].price = new_price]

\* update_product, the part after the menu choice; id: the product found
update_product_field(id, action) ==
    IF action = "1" THEN
        \E rawName \in NameInputs :
            LET new_name == strip(rawName) IN
            IF new_name = <<>> THEN
                /\ last' = Report("update_product", "invalid", 0, 0)
                /\ UNCHANGED products
            ELSE IF OtherProductNamed(new_name, id) # {} THEN
                /\ last' = Report("update_product", "exists", 0, 0)
                /\ UNCHANGED products
            ELSE \E ok \in BOOLEAN :
                IF ~ok THEN
                    /\ last' = Report("update_product", "failed", 0, 0)
                    /\ UNCHANGED products
                ELSE
                    /\ products' = [products EXCEPT ![id].name = new_name]
                    /\ last' = Report("update_product", "ok_name", 0, 0)
    ELSE IF action = "2" THEN
        \E rawPrice \in PriceInputs :
            IF rawPrice.kind = "bad" \/ PriceNotPositive(rawPrice) THEN
                /\ last' = Report("update_product", "invalid", 0, 0)
                /\ UNCHANGED products
            ELSE \E ok \in BOOLEAN :
                IF ~ok \/ ~PriceNotNull(rawPrice) THEN
                    /\ last' = Report("update_product", "failed", 0, 0)
                    /\ UNCHANGED products
                ELSE
                    /\ products' = WithPrice(products, id, rawPrice.val)
                    /\ last' = Report("update_product", "ok_price", 0, 0)
    ELSE IF action = "3" THEN
        \E rawStock \in StockInputs :
            IF rawStock.kind = "bad" \/ rawStock.val < 0 THEN
                /\ last' = Report("update_product", "invalid", 0, 0)
                /\ UNCHANGED products
            ELSE \E ok \in BOOLEAN :
                IF ~ok THEN
                    /\ last' = Report("update_product", "failed", 0, 0)
                    /\ UNCHANGED products
                ELSE
                    /\ products' = [products EXCEPT ![id].stock_quantity = rawStock.val]
                    /\ last' = Report("update_product", "ok_stock", 0, 0)
    ELSE IF action = "4" THEN
        /\ last' = Report("update_product", "canceled", 0, 0)
        /\ UNCHANGED products
    ELSE
        /\ last' = Report("update_product", "invalid", 0, 0)
        /\ UNCHANGED products

\* update_product: the id and the menu choice as typed
update_product ==
    /\ ForgetSale
    /\ UNCHANGED <<users, orders, order_items>>
    /\ \E rawId \in IdInputs :
        IF ~isdigit(rawId) THEN
            /\ last' = Report("update_product", "invalid", 0, 0)
            /\ UNCHANGED products
        ELSE IF ~Exists(products, rawId) THEN
            /\ last' = Report("update_product", "not_found", 0, 0)
            /\ UNCHANGED products
        ELSE \E action \in ActionInputs : update_product_field(rawId, action)

\* session.delete(product) and the flush: the row, and through the relationship
\* Product.order_items (cascade "all, delete-orphan") the order items that reference it
DeleteProductRow(id) ==
    /\ products' = Remove(products, {id})
    /\ order_items' = Remove(order_items, OrderItemsOfProduct(id))

\* delete_product: the id and the confirmation as typed
delete_product ==
    /\ ForgetSale
    /\ UNCHANGED <<users, orders>>
    /\ \E rawId \in IdInputs :
        IF ~isdigit(rawId) THEN
            /\ last' = Report("delete_product", "invalid", 0, 0)
            /\ UNCHANGED <<products, order_items>>
        ELSE IF ~Exists(products, rawId) THEN
            /\ last' = Report("delete_product", "not_found", 0, 0)
            /\ UNCHANGED <<products, order_items>>
        ELSE \E confirm \in ConfirmInputs :
            IF ~Confirmed(confirm) THEN
                /\ last' = Report("delete_product", "canceled", rawId, Answer(confirm))
                /\ UNCHANGED <<products, order_items>>
            ELSE IF ProductIsReferenced(rawId) THEN
                /\ last' = Report("delete_product", "referenced", rawId, Answer(confirm))
                /\ UNCHANGED <<products, order_items>>
            ELSE \E ok \in BOOLEAN :
                IF ~ok THEN
                    /\ last' = Report("delete_product", "failed", rawId, Answer(confirm))
                    /\ UNCHANGED <<products, order_items>>
                ELSE
                    /\ DeleteProductRow(rawId)
                    /\ last' = Report("delete_product", "ok", rawId, Answer(confirm))

(***************************************************************************)
(* User management.                                                        *)
(***************************************************************************)
\* session.query(User).filter_by(email=email).first(); the UNIQUE constraint of
\* users.email stands behind this lookup and is left out, so that the lookups alone
\* have to keep the emails apart
UserWithEmail(email) == { u \in DOMAIN users : users[u].email = email }

\* '@' in email
HasAt(email) == \E i \in 1 .. Len(email) : email[i] = "@"

\* add_user: name and email as typed; ok: whether session.commit() succeeds
add_user ==
    /\ ForgetSale
    /\ UNCHANGED <<products, orders, order_items>>
    /\ \E rawName \in UserNameInputs :
        LET name == strip(rawName) IN
        IF name = <<>> THEN
            /\ last' = Report("add_user", "invalid", 0, 0)
            /\ UNCHANGED users
        ELSE \E rawEmail \in EmailInputs :
            LET email == strip(rawEmail) IN
            IF email = <<>> \/ ~HasAt(email) THEN
                /\ last' = Report("add_user", "invalid", 0, 0)
                /\ UNCHANGED users
            ELSE IF UserWithEmail(email) # {} THEN
                /\ last' = Report("add_user", "exists", 0, 0)
                /\ UNCHANGED users
            ELSE \E ok \in BOOLEAN :
                IF ~ok THEN
                    /\ last' = Report("add_user", "failed", 0, 0)
                    /\ UNCHANGED users
                ELSE
                    /\ Cardinality(DOMAIN users) < MaxUsers
                    /\ users' = users @@ (NextId(users) :>
                            [name |-> name, email |-> email, is_active |-> TRUE])
                    /\ last' = Report("add_user", "ok", 0, 0)

\* the filter with User.id == user.id in place of User.id != user.id
OtherUserWithEmail_sameId(email, id) ==
    { u \in DOMAIN users : users[u].email = email /\ u = id }

\* session.query(User).filter(User.email == new_email, User.id != user.id).first()
OtherUserWithEmail(email, id) == { u \in DOMAIN users : users[u].email = email /\ u # id }

\* update_user, the part after the menu choice; id: the user found
update_user_field(id, action) ==
    IF action = "1" THEN
        \E rawName \in UserNameInputs :
            LET new_name == strip(rawName) IN
            IF new_name = <<>> THEN
                /\ last' = Report("update_user", "invalid", 0, 0)
                /\ UNCHANGED users
            ELSE \E ok \in BOOLEAN :
                IF ~ok THEN
                    /\ last' = Report("update_user", "failed", 0, 0)
                    /\ UNCHANGED users
                ELSE
                    /\ users' = [users EXCEPT ![id].name = new_name]
                    /\ last' = Report("update_user", "ok_name", 0, 0)
    ELSE IF action = "2" THEN
        \E rawEmail \in EmailInputs :
            LET new_email == strip(rawEmail) IN
            IF new_email = <<>> \/ ~HasAt(new_email) THEN
                /\ last' = Report("update_user", "invalid", 0, 0)
                /\ UNCHANGED users
            ELSE IF OtherUserWithEmail(new_email, id) # {} THEN
                /\ last' = Report("update_user", "exists", 0, 0)
                /\ UNCHANGED users
            ELSE \E ok \in BOOLEAN :
                IF ~ok THEN
                    /\ last' = Report("update_user", "failed", 0, 0)
                    /\ UNCHANGED users
                ELSE
                    /\ users' = [users EXCEPT ![id].email = new_email]
                    /\ last' = Report("update_user", "ok_email", 0, 0)
    ELSE IF action = "3" THEN
        \E new_status \in ConfirmInputs :
            IF new_status \notin {"y", "n"} THEN
                /\ last' = Report("update_user", "invalid", 0, 0)
                /\ UNCHANGED users
            ELSE \E ok \in BOOLEAN :
                IF ~ok THEN
                    /\ last' = Report("update_user", "failed", 0, 0)
                    /\ UNCHANGED users
                ELSE
                    /\ users' = [users EXCEPT ![id].is_active = (new_status = "y")]
                    /\ last' = Report("update_user", "ok_status", 0, 0)
    ELSE IF action = "4" THEN
        /\ last' = Report("update_user", "canceled", 0, 0)
        /\ UNCHANGED users
    ELSE
        /\ last' = Report("update_user", "invalid", 0, 0)
        /\ UNCHANGED users

\* update_user: the id and the menu choice as typed
update_user ==
    /\ ForgetSale
    /\ UNCHANGED <<products, orders, order_items>>
    /\ \E rawId \in IdInputs :
        IF ~isdigit(rawId) THEN
            /\ last' = Report("update_user", "invalid", 0, 0)
            /\ UNCHANGED users
        ELSE IF ~Exists(users, rawId) THEN
            /\ last' = Report("update_user", "not_found", 0, 0)
            /\ UNCHANGED users
        ELSE \E action \in ActionInputs : update_user_field(rawId, action)

\* session.delete(user) and the flush: the row, through User.orders (cascade "all,
\* delete-orphan") the user's orders, and through Order.order_items their items
DeleteUserRow(id) ==
    /\ users' = Remove(users, {id})
    /\ orders' = Remove(orders, OrdersOfUser(id))
    /\ order_items' = Remove(order_items,
            { i \in DOMAIN order_items : order_items[i].order_id \in OrdersOfUser(id) })

\* delete_user: the id and the confirmation as typed
delete_user ==
    /\ ForgetSale
    /\ UNCHANGED <<products>>
    /\ \E rawId \in IdInputs :
        IF ~isdigit(rawId) THEN
            /\ last' = Report("delete_user", "invalid", 0, 0)
            /\ UNCHANGED <<users, orders, order_items>>
        ELSE IF ~Exists(users, rawId) THEN
            /\ last' = Report("delete_user", "not_found", 0, 0)
            /\ UNCHANGED <<users, orders, order_items>>
        ELSE \E confirm \in ConfirmInputs :
            IF ~Confirmed(confirm) THEN
                /\ last' = Report("delete_user", "canceled", rawId, Answer(confirm))
                /\ UNCHANGED <<users, orders, order_items>>
            ELSE IF UserHasOrders(rawId) THEN
                /\ last' = Report("delete_user", "referenced", rawId, Answer(confirm))
                /\ UNCHANGED <<users, orders, order_items>>
            ELSE \E ok \in BOOLEAN :
                IF ~ok THEN
                    /\ last' = Report("delete_user", "failed", rawId, Answer(confirm))
                    /\ UNCHANGED <<users, orders, order_items>>
                ELSE
                    /\ DeleteUserRow(rawId)
                    /\ last' = Report("delete_user", "ok", rawId, Answer(confirm))

(***************************************************************************)
(* process_sale.                                                           *)
(***************************************************************************)
\* session.query(User).first(): SQLite scans the table in rowid order; 0 stands for
\* the None of an empty table
FirstUser == IF DOMAIN users = {} THEN 0 ELSE Min(DOMAIN users)

\* a test that lets every sale through
NoUser_neverNone(u) == FALSE

\* not user
NoUser(u) == u = 0

\* the sale returns to the menu
SaleReturns(res) ==
    /\ pc' = "menu"
    /\ last' = Report("process_sale", res, 0, 0)

\* the sale returns to the menu after the confirmation prompt; answer: the mark of the
\* operator's answer
SaleReturnsAfterPrompt(res, answer) ==
    /\ pc' = "menu"
    /\ last' = Report("process_sale", res, 0, answer)

\* process_sale up to the cart loop
process_sale_begin ==
    /\ pc = "menu"
    /\ UNCHANGED store
    /\ refused' = FALSE
    /\ IF NoUser(FirstUser) THEN
            /\ SaleReturns("no_user")
            /\ user' = 0
            /\ items' = <<>>
            /\ total' = 0
            /\ order' = 0
            /\ pre' = store
       ELSE
            /\ Cardinality(DOMAIN orders) < MaxOrders
            /\ pc' = "cart"
            /\ user' = FirstUser
            /\ items' = <<>>
            /\ total' = 0
            /\ order' = 0
            /\ pre' = store
            /\ last' = Report("process_sale", "begin", 0, 0)

\* the test quantity < 0 in place of quantity <= 0
QuantityNotPositive_zeroAllowed(quantity) == quantity < 0

\* quantity <= 0
QuantityNotPositive(quantity) == quantity <= 0

\* the test off by one, quantity - 1 > product.stock_quantity
NotEnoughStock_offByOne(quantity, id) == quantity - 1 > products[id].stock_quantity

\* quantity > product.stock_quantity
NotEnoughStock(quantity, id) == quantity > products[id].stock_quantity

\* items.append({'product': product, 'quantity': quantity, 'unit_price': product.price})
CartLine(id, quantity) ==
    [product |-> id, quantity |-> quantity, unit_price |-> products[id].price]

\* one pass of the cart loop that does not end it: a product id and a quantity
process_sale_line ==
    /\ pc = "cart"
    /\ UNCHANGED <<store, pc, user, order, pre>>
    /\ \E rawId \in IdInputs :
        IF ~isdigit(rawId) THEN
            /\ last' = Report("cart_line", "invalid", 0, 0)
            /\ UNCHANGED <<items, total, refused>>
        ELSE IF ~Exists(products, rawId) THEN
            /\ last' = Report("cart_line", "not_found", 0, 0)
            /\ UNCHANGED <<items, total, refused>>
        ELSE \E rawQuantity \in QuantityInputs :
            IF rawQuantity.kind = "bad" \/ QuantityNotPositive(rawQuantity.val) THEN
                /\ last' = Report("cart_line", "invalid", 0, 0)
                /\ UNCHANGED <<items, total, refused>>
            ELSE IF NotEnoughStock(rawQuantity.val, rawId) THEN
                /\ last' = Report("cart_line", "not_enough", rawId, rawQuantity.val)
                /\ refused' = TRUE
                /\ UNCHANGED <<items, total>>
            ELSE
                /\ UNCHANGED refused
                /\ Len(items) < MaxLines
                /\ items' = Append(items, CartLine(rawId, rawQuantity.val))
                /\ total' = total + products[rawId].price * rawQuantity.val
                /\ last' = Report("cart_line", "added", rawId, rawQuantity.val)

\* a test that no cart passes, len(items) < 0
NoItems_negativeLength(its) == Len(its) < 0

\* not items
NoItems(its) == its = <<>>

\* the operator types 'done'
process_sale_done ==
    /\ pc = "cart"
    /\ UNCHANGED store
    /\ UNCHANGED sale
    /\ IF NoItems(items) THEN
            SaleReturns("empty")
       ELSE
            /\ pc' = "confirm"
            /\ last' = Report("process_sale", "summary", 0, 0)

\* Order(user_id=user.id, total_amount=total, status='completed')
NewOrder == [user_id |-> user, total_amount |-> total, status |-> "completed"]

\* the confirmation prompt, then session.add(order); session.commit()
process_sale_confirm ==
    /\ pc = "confirm"
    /\ UNCHANGED <<users, products, order_items, user, items, total, refused, pre>>
    /\ \E confirm \in ConfirmInputs :
        IF ~Confirmed(confirm) THEN
            /\ SaleReturnsAfterPrompt("canceled", Answer(confirm))
            /\ UNCHANGED <<orders, order>>
        ELSE \E ok \in BOOLEAN :
            IF ~ok THEN
                \* the commit raises: rollback, nothing was written
                /\ SaleReturnsAfterPrompt("failed", Answer(confirm))
                /\ UNCHANGED <<orders, order>>
            ELSE
                /\ orders' = orders @@ (NextId(orders) :> NewOrder)
                /\ order' = NextId(orders)
                /\ pc' = "items"
                /\ last' = Report("process_sale", "order_committed", 0, Answer(confirm))

\* the lines of one product merged into one order item of the order
AddOrderItem_merged(oitems, oid, prods, line) ==
    LET same == { i \in DOMAIN oitems : oitems[i].order_id = oid
                                         /\ oitems[i].product_id = line.product } IN
    IF same = {} THEN
        oitems @@ (NextId(oitems) :>
            [order_id |-> oid, product_id |-> line.product, quantity |-> line.quantity,
             unit_price |-> prods[line.product].price])
    ELSE [oitems EXCEPT ![Min(same)].quantity = @ + line.quantity]

\* the order item written without the id of its order
AddOrderItem_noOrderId(oitems, oid, prods, line) ==
    oitems @@ (NextId(oitems) :>
        [order_id |-> 0, product_id |-> line.product, quantity |-> line.quantity,
         unit_price |-> prods[line.product].price])

\* the order item written with the highest price in place of the product's price
AddOrderItem_listPrice(oitems, oid, prods, line) ==
    oitems @@ (NextId(oitems) :>
        [order_id |-> oid, product_id |-> line.product, quantity |-> line.quantity,
         unit_price |-> MaxPrice])

\* OrderItem(order_id=order.id, product_id=product.id, quantity=quantity,
\*           unit_price=product.price); session.add(order_item)
AddOrderItem(oitems, oid, prods, line) ==
    oitems @@ (NextId(oitems) :>
        [order_id |-> oid, product_id |-> line.product, quantity |-> line.quantity,
         unit_price |-> prods[line.product].price])

\* the decrement taken from the stock as stored, not from the loaded product
DecrementStock_stale(prods, line) ==
    [prods EXCEPT ![line.product].stock_quantity =
        products[line.product].stock_quantity - line.quantity]

\* product.stock_quantity -= quantity
DecrementStock(prods, line) ==
    [prods EXCEPT ![line.product].stock_quantity = @ - line.quantity]

\* for item in items: the order items and the products after the loop
RECURSIVE WriteItems(_, _, _, _)
WriteItems(its, oid, oitems, prods) ==
    IF its = <<>> THEN [order_items |-> oitems, products |-> prods]
    ELSE WriteItems(Tail(its), oid,
                    AddOrderItem(oitems, oid, prods, Head(its)),
                    DecrementStock(prods, Head(its)))

\* the loop over the cart and the second session.commit()
process_sale_items ==
    /\ pc = "items"
    /\ UNCHANGED <<users, orders, sale>>
    /\ \E ok \in BOOLEAN :
        IF ~ok THEN
            \* the commit raises: rollback of the items and the stock, the Order row
            \* was committed before
            /\ SaleReturnsAfterPrompt("failed", last.b)
            /\ UNCHANGED <<products, order_items>>
        ELSE
            LET w == WriteItems(items, order, order_items, products) IN
            /\ products' = w.products
            /\ order_items' = w.order_items
            /\ SaleReturnsAfterPrompt("ok", last.b)

(***************************************************************************)
(* Lists and reports of the menus: reads of the store.                     *)
(***************************************************************************)
\* a read starts at the menu: the locals of the last sale are gone, and the store it
\* starts from is kept for the record
BeginRead ==
    /\ pc = "menu"
    /\ pc' = "menu"
    /\ user' = 0
    /\ items' = <<>>
    /\ total' = 0
    /\ order' = 0
    /\ refused' = FALSE
    /\ pre' = store

\* the rows of a scan that starts at the largest rowid
RECURSIVE RowidScan_descending(_)
RowidScan_descending(table) ==
    IF DOMAIN table = {} THEN <<>>
    ELSE LET i == Max(DOMAIN table) IN
         <<[id |-> i, row |-> table[i]]>> \o RowidScan_descending(Remove(table, {i}))

\* session.query(...).all() without ORDER BY: SQLite scans the table in rowid order
RECURSIVE RowidScan(_)
RowidScan(table) ==
    IF DOMAIN table = {} THEN <<>>
    ELSE LET i == Min(DOMAIN table) IN
         <<[id |-> i, row |-> table[i]]>> \o RowidScan(Remove(table, {i}))

\* list_products: the rows it prints
list_products ==
    /\ BeginRead
    /\ UNCHANGED store
    /\ LET rows == RowidScan(products) IN
        last' = Report("list_products", IF rows = <<>> THEN "none" ELSE "ok", rows, 0)

\* list_users: the rows it prints
list_users ==
    /\ BeginRead
    /\ UNCHANGED store
    /\ LET rows == RowidScan(users) IN
        last' = Report("list_users", IF rows = <<>> THEN "none" ELSE "ok", rows, 0)

\* daily_sales_report: datetime.fromtimestamp(Order.created_at) is given a column, not
\* a number, and raises TypeError while the query is built; the except branch prints
\* "Failed to generate report."
daily_sales_report ==
    /\ BeginRead
    /\ UNCHANGED store
    /\ last' = Report("daily_sales_report", "failed", 0, 0)

\* total_value += product.price * product.stock_quantity, over the rows
RECURSIVE InventoryValue(_)
InventoryValue(rows) ==
    IF rows = <<>> THEN 0
    ELSE Head(rows).row.price * Head(rows).row.stock_quantity + InventoryValue(Tail(rows))

\* product_inventory_report: the total inventory value it prints
product_inventory_report ==
    /\ BeginRead
    /\ UNCHANGED store
    /\ LET rows == RowidScan(products) IN
        last' = IF rows = <<>> THEN Report("product_inventory_report", "none", 0, 0)
                ELSE Report("product_inventory_report", "ok", 0, InventoryValue(rows))

\* customer_purchases_report: User joined with Order, grouped by user; the number of
\* customers it prints
customer_purchases_report ==
    /\ BeginRead
    /\ UNCHANGED store
    /\ LET customers == { u \in DOMAIN users : OrdersOfUser(u) # {} } IN
        last' = IF customers = {} THEN Report("customer_purchases_report", "none", 0, 0)
                ELSE Report("customer_purchases_report", "ok", 0, Cardinality(customers))

\* add_user while the store holds fewer than MaxCashiers users
add_cashier == add_user /\ Cardinality(DOMAIN users') <= MaxCashiers

\* the sales desk: products, sales, and the accounts of at most MaxCashiers users
Next ==
    \/ add_product
    \/ update_product
    \/ delete_product
    \/ add_cashier
    \/ delete_user
    \/ list_products
    \/ list_users
    \/ daily_sales_report
    \/ product_inventory_report
    \/ customer_purchases_report
    \/ process_sale_begin
    \/ process_sale_line
    \/ process_sale_done
    \/ process_sale_confirm
    \/ process_sale_items

Spec == Init /\ [][Next]_vars

\* the user administration: the accounts of up to MaxUsers users
NextUsers ==
    \/ add_user
    \/ update_user
    \/ delete_user

SpecUsers == Init /\ [][NextUsers]_vars

(***************************************************************************)
(* The model layer (src/src/models.py) as tests/test_models.py drives it:  *)
(* rows of Order and OrderItem added and deleted through the session, next *)
(* to the sales of process_sale, in a store that already has its users and *)
(* products.                                                               *)
(***************************************************************************)
MaxOrderId == 2     \* largest id of an Order added through the session
MaxItemId  == 3     \* largest id of an OrderItem added through the session

\* Order(...) built without a status
NoStatus == "none"
StatusInputs == { NoStatus, "completed" }

\* a column default that is the status process_sale passes
StatusOrDefault_completed(status) == IF status = NoStatus THEN "completed" ELSE status

\* Order.status, default="pending"
StatusOrDefault(status) == IF status = NoStatus THEN "pending" ELSE status

\* order = Order(user=user, total_amount=..., [status=...]); session.add(order);
\* session.commit()
session_add_order ==
    /\ ForgetSale
    /\ UNCHANGED <<users, products, order_items>>
    /\ \E u \in DOMAIN users, total_amount \in { MaxPrice }, status \in StatusInputs,
          ok \in BOOLEAN :
        IF ~ok THEN
            /\ last' = Report("add_order", "failed", 0, 0)
            /\ UNCHANGED orders
        ELSE
            /\ NextId(orders) <= MaxOrderId
            /\ orders' = orders @@ (NextId(orders) :>
                    [user_id |-> u, total_amount |-> total_amount,
                     status |-> StatusOrDefault(status)])
            /\ last' = Report("add_order", status, NextId(orders), 0)

\* item = OrderItem(order=order, product=product, quantity=1, unit_price=...);
\* session.add(item); session.commit()
session_add_order_item ==
    /\ ForgetSale
    /\ UNCHANGED <<users, products, orders>>
    /\ \E o \in DOMAIN orders, p \in DOMAIN products, ok \in BOOLEAN :
        IF ~ok THEN
            /\ last' = Report("add_order_item", "failed", 0, 0)
            /\ UNCHANGED order_items
        ELSE
            /\ NextId(order_items) <= MaxItemId
            /\ order_items' = order_items @@ (NextId(order_items) :>
                    [order_id |-> o, product_id |-> p, quantity |-> 1,
                     unit_price |-> products[p].price])
            /\ last' = Report("add_order_item", "ok", o, 0)

\* the delete that leaves the order items of the order behind
DeleteOrderRow_noCascade(id) ==
    /\ orders' = Remove(orders, {id})
    /\ UNCHANGED <<order_items, products>>

\* the delete that hands the quantities of the order items back to the stock
DeleteOrderRow_restock(id) ==
    /\ orders' = Remove(orders, {id})
    /\ order_items' = Remove(order_items, OrderItemsOfOrder(id))
    /\ products' = [p \in DOMAIN products |->
            [products[p] EXCEPT !.stock_quantity = @ + Cardinality(
                { i \in OrderItemsOfOrder(id) : order_items[i].product_id = p })]]

\* session.delete(order) and the flush: the row and, through Order.order_items
\* (cascade "all, delete-orphan"), its order items; OrderItem.product has no cascade
DeleteOrderRow(id) ==
    /\ orders' = Remove(orders, {id})
    /\ order_items' = Remove(order_items, OrderItemsOfOrder(id))
    /\ UNCHANGED products

\* session.delete(order); session.commit(); the report carries the number of order
\* items the order had
session_delete_order ==
    /\ ForgetSale
    /\ UNCHANGED <<users>>
    /\ \E o \in DOMAIN orders, ok \in BOOLEAN :
        IF ~ok THEN
            /\ last' = Report("delete_order", "failed", o, 0)
            /\ UNCHANGED <<products, orders, order_items>>
        ELSE
            /\ DeleteOrderRow(o)
            /\ last' = Report("delete_order", "ok", o, Cardinality(OrderItemsOfOrder(o)))

\* the stores the model layer starts from: MaxUsers users with distinct emails and
\* fully stocked products with distinct names, as add_user and add_product leave them
UserTables ==
    { [u \in 1 .. MaxUsers |->
        [name |-> <<"a">>, email |-> [i \in 1 .. u |-> "x"] \o <<"@">>, is_active |-> TRUE]] }

ProductTables ==
    UNION { { [p \in 1 .. n |-> [name |-> <<IF p = 1 THEN "a" ELSE "b">>, price |-> f[p][1],
                                 stock_quantity |-> f[p][2]]] :
                f \in [1 .. n -> (1 .. MaxPrice) \X { MaxStock }] } :
            n \in 1 .. MaxProducts }

InitModels ==
    /\ users \in UserTables
    /\ products \in ProductTables
    /\ orders = <<>>
    /\ order_items = <<>>
    /\ pc = "menu"
    /\ user = 0
    /\ items = <<>>
    /\ total = 0
    /\ order = 0
    /\ refused = FALSE
    /\ pre = NoStore
    /\ last = Report("init", "", 0, 0)

NextModels ==
    \/ session_add_order
    \/ session_add_order_item
    \/ session_delete_order
    \/ process_sale_begin
    \/ process_sale_line
    \/ process_sale_done
    \/ process_sale_confirm
    \/ process_sale_items

SpecModels == InitModels /\ [][NextModels]_vars

(***************************************************************************)
(* A second terminal: another POSApplication process on the same database  *)
(* file.  Its process_sale is taken as one step, from its stock check to   *)
(* its second commit, placed anywhere between the steps of this terminal's *)
(* sale; this terminal's session reloads a product after its own commit,   *)
(* so it decrements the stock that the other terminal left.                *)
(***************************************************************************)
MaxOtherSales == 1  \* sales the second terminal commits

\* process_sale of the second terminal, with a cart of one line that passes its checks
other_terminal_sale ==
    /\ DOMAIN users # {}
    /\ Cardinality({ o \in DOMAIN orders : o # order }) < MaxOtherSales
    /\ UNCHANGED <<users, pc, sale>>
    /\ \E id \in DOMAIN products, rawQuantity \in QuantityInputs :
        /\ rawQuantity.kind = "num"
        /\ ~QuantityNotPositive(rawQuantity.val)
        /\ ~NotEnoughStock(rawQuantity.val, id)
        /\ orders' = orders @@ (NextId(orders) :>
                [user_id |-> FirstUser,
                 total_amount |-> products[id].price * rawQuantity.val,
                 status |-> "completed"])
        /\ LET w == WriteItems(<<CartLine(id, rawQuantity.val)>>, NextId(orders),
                               order_items, products) IN
            /\ products' = w.products
            /\ order_items' = w.order_items
        /\ last' = Report("other_terminal", "ok", id, rawQuantity.val)

NextConcurrent ==
    \/ process_sale_begin
    \/ process_sale_line
    \/ process_sale_done
    \/ process_sale_confirm
    \/ process_sale_items
    \/ other_terminal_sale

SpecConcurrent == InitModels /\ [][NextConcurrent]_vars

(***************************************************************************)
(* The ledger: sales that ran to their end, one after another, with the    *)
(* updates and deletes of products and users between them.  A sale is one  *)
(* step here, from the cart to its second commit, so that a second sale    *)
(* can follow a first one.                                                 *)
(***************************************************************************)
\* process_sale run to its end: a cart of one line that passes its checks, the answer
\* 'y', and both commits succeed
process_sale_whole ==
    /\ ForgetSale
    /\ ~NoUser(FirstUser)
    /\ NextId(orders) <= MaxOrderId
    /\ UNCHANGED users
    /\ \E id \in DOMAIN products, rawQuantity \in QuantityInputs :
        /\ rawQuantity.kind = "num"
        /\ ~QuantityNotPositive(rawQuantity.val)
        /\ ~NotEnoughStock(rawQuantity.val, id)
        /\ orders' = orders @@ (NextId(orders) :>
                [user_id |-> FirstUser,
                 total_amount |-> products[id].price * rawQuantity.val,
                 status |-> "completed"])
        /\ LET w == WriteItems(<<CartLine(id, rawQuantity.val)>>, NextId(orders),
                               order_items, products) IN
            /\ products' = w.products
            /\ order_items' = w.order_items
        /\ last' = Report("process_sale", "ok", id, Answer("y"))

NextLedger ==
    \/ process_sale_whole
    \/ update_product
    \/ update_user
    \/ delete_product
    \/ delete_user

SpecLedger == InitModels /\ [][NextLedger]_vars

(***************************************************************************)
(* The view layer (src/src/views.py), called on the stores of the model    *)
(* layer.  Both views open with session = get_session(); the get_session   *)
(* that views.py imports is models.get_session(engine), so the call without*)
(* an argument raises TypeError before any query is made.  The except      *)
(* branch logs through the module's logger, which is None unless it is set *)
(* at run time, and re-raises: either way the view raises and returns      *)
(* nothing.                                                                *)
(***************************************************************************)
\* display_report(): order_id is None
NoOrderId == 0
\* the ids display_report is called with: none, the ids of orders, and one past them
OrderIdInputs == NoOrderId .. (MaxOrderId + 1)

\* render_dashboard()
render_dashboard ==
    /\ BeginRead
    /\ UNCHANGED store
    /\ last' = Report("render_dashboard", "raised", 0, 0)

\* display_report(order_id); the report carries order_id
display_report ==
    /\ BeginRead
    /\ UNCHANGED store
    /\ \E order_id \in OrderIdInputs :
        last' = Report("display_report", "raised", 0, order_id)

NextViews ==
    \/ session_add_order
    \/ session_add_order_item
    \/ session_delete_order
    \/ render_dashboard
    \/ display_report

SpecViews == InitModels /\ [][NextViews]_vars

(***************************************************************************)
(* Properties of the store and of process_sale.                            *)
(***************************************************************************)
\* the tables of the store a sale started from
preUsers      == pre[1]
preProducts   == pre[2]
preOrders     == pre[3]
preOrderItems == pre[4]

\* process_sale has returned, and reported res
SaleReturned(res) == pc = "menu" /\ last.op = "process_sale" /\ last.res = res

\* the quantity the lines of a cart request of product id
RECURSIVE Requested(_, _)
Requested(its, id) ==
    IF its = <<>> THEN 0
    ELSE (IF Head(its).product = id THEN Head(its).quantity ELSE 0)
         + Requested(Tail(its), id)

\* sum of quantity * unit_price over a set of order items
RECURSIVE Amount(_)
Amount(S) ==
    IF S = {} THEN 0
    ELSE LET i == CHOOSE j \in S : TRUE IN
         order_items[i].quantity * order_items[i].unit_price + Amount(S \ {i})

\* C1: every product's stock_quantity is >= 0 in every state of the store, also after
\* a confirmed sale whose cart holds several lines of one product.
C1_StockNeverNegative ==
    \A p \in DOMAIN products : products[p].stock_quantity >= 0

\* C2: when process_sale fails after the operator confirmed, the store equals the store
\* before the sale started: no Order, no OrderItem, no stock change persists.
C2_FailedSaleLeavesStore ==
    SaleReturned("failed") => store = pre

\* C3: once process_sale has returned, every Order's total_amount equals the sum of
\* quantity * unit_price over the order items of that order.
C3_TotalIsSumOfItems ==
    pc = "menu" =>
        \A o \in DOMAIN orders : orders[o].total_amount = Amount(OrderItemsOfOrder(o))

\* C4, as stated: a sale in which a line requested more than the product's stock fails:
\* it does not complete, and when it returns no OrderItem was created, every stock is
\* unchanged and (unless a commit failed, which is C2's case) no Order was created.
C4_InsufficientLineFailsSale ==
    (pc = "menu" /\ last.op = "process_sale" /\ refused) =>
        /\ last.res # "ok"
        /\ order_items = preOrderItems
        /\ products = preProducts
        /\ last.res # "failed" => orders = preOrders

\* C4, amended: a line that requests more than the product's current stock is refused
\* with "not enough stock" and writes nothing, the sale goes on with its other lines, and
\* no line of the cart requests more than the stock its product had.
C4_InsufficientLineRefused ==
    /\ (last.op = "cart_line" /\ last.a \in DOMAIN products
            /\ last.b > products[last.a].stock_quantity)
        => (last.res = "not_enough" /\ refused /\ pc = "cart" /\ store = pre)
    /\ pc \in {"cart", "confirm", "items"} =>
        \A i \in 1 .. Len(items) :
            /\ items[i].product \in DOMAIN preProducts
            /\ items[i].quantity <= preProducts[items[i].product].stock_quantity

\* a sale with a refused line went on and was committed
C4_Witness ==
    SaleReturned("ok") /\ refused /\ DOMAIN order_items # {}

\* C5: after a successful sale the stock of every product is its stock before the sale
\* minus the summed quantity of the cart lines that reference it; products the cart
\* does not reference keep their stock.
C5_StockDecrementedBySum ==
    SaleReturned("ok") =>
        /\ DOMAIN products = DOMAIN preProducts
        /\ \A p \in DOMAIN products :
            products[p].stock_quantity =
                preProducts[p].stock_quantity - Requested(items, p)

\* a committed sale with two lines of one product, next to a product it did not touch
C5_Witness ==
    /\ SaleReturned("ok")
    /\ Len(items) = 2
    /\ items[1].product = items[2].product
    /\ \E p \in DOMAIN products : Requested(items, p) = 0

\* C6: a successful sale creates exactly one Order and one OrderItem per accepted cart
\* line, in cart order, each with the product and quantity of its line; lines of one
\* product are not merged.
C6_OneOrderItemPerLine ==
    SaleReturned("ok") =>
        /\ DOMAIN orders = DOMAIN preOrders \cup {order}
        /\ order \notin DOMAIN preOrders
        /\ \A o \in DOMAIN preOrders : orders[o] = preOrders[o]
        /\ DOMAIN preOrderItems \subseteq DOMAIN order_items
        /\ \A i \in DOMAIN preOrderItems : order_items[i] = preOrderItems[i]
        /\ DOMAIN order_items \ DOMAIN preOrderItems =
                { NextId(preOrderItems) + k - 1 : k \in 1 .. Len(items) }
        /\ \A k \in 1 .. Len(items) :
            LET it == order_items[NextId(preOrderItems) + k - 1] IN
            /\ it.order_id = order
            /\ it.product_id = items[k].product
            /\ it.quantity = items[k].quantity

\* a committed sale whose two lines are of one product: two order items
C6_Witness ==
    /\ SaleReturned("ok")
    /\ Len(items) = 2
    /\ items[1].product = items[2].product
    /\ Cardinality(OrderItemsOfOrder(order)) = 2

\* C7: a sale finished with an empty cart goes no further than the cart loop and
\* writes nothing: it returns with the store it started from.
C7_EmptyCartWritesNothing ==
    /\ pc \in {"confirm", "items"} => items # <<>>
    /\ (pc = "menu" /\ last.op = "process_sale" /\ last.res # "no_user" /\ items = <<>>)
        => (last.res = "empty" /\ store = pre)

\* a sale returned for its empty cart, in a store that has products to sell
C7_Witness ==
    SaleReturned("empty") /\ items = <<>> /\ DOMAIN products # {}

\* C8: delete_product on a product that an order item references leaves the store
\* unchanged, and a product is removed only when no order item references it.
C8_DeleteProductGuard ==
    [][ /\ (last'.op = "delete_product" /\ last'.a \in DOMAIN products
                /\ OrderItemsOfProduct(last'.a) # {})
            => UNCHANGED store
        /\ \A p \in DOMAIN products \ DOMAIN products' : OrderItemsOfProduct(p) = {}
      ]_vars

\* delete_product was confirmed for a product in an order, and refused
C8_Witness ==
    /\ last.op = "delete_product" /\ last.res = "referenced"
    /\ last.a \in DOMAIN products
    /\ OrderItemsOfProduct(last.a) # {}

\* C9: delete_user on a user that owns an order leaves the store unchanged, and no
\* delete_user removes an order.
C9_DeleteUserGuard ==
    [][ /\ (last'.op = "delete_user" /\ last'.a \in DOMAIN users
                /\ OrdersOfUser(last'.a) # {})
            => UNCHANGED store
        /\ last'.op = "delete_user" => orders' = orders /\ order_items' = order_items
      ]_vars

\* delete_user was confirmed for a user that owns an order, and refused
C9_Witness ==
    /\ last.op = "delete_user" /\ last.res = "referenced"
    /\ last.a \in DOMAIN users
    /\ OrdersOfUser(last.a) # {}

\* no two products have the same name
NamesUnique ==
    \A p, q \in DOMAIN products : p # q => products[p].name # products[q].name

\* C10: no two products ever have the same name, and an add_product or update_product
\* turned down for its name ("already exists") changes nothing.
C10_ProductNamesUnique ==
    /\ []NamesUnique
    /\ [][ (last'.op \in {"add_product", "update_product"} /\ last'.res = "exists")
            => UNCHANGED store ]_vars

\* a rename to the name of the other product was turned down
C10_Witness ==
    /\ last.op = "update_product" /\ last.res = "exists"
    /\ Cardinality(DOMAIN products) = 2

\* no two users have the same email
EmailsUnique ==
    \A u, v \in DOMAIN users : u # v => users[u].email # users[v].email

\* C11: after any sequence of add_user and update_user no two users have the same
\* email, and an add_user or update_user turned down for its email ("already exists")
\* changes nothing.
C11_UserEmailsUnique ==
    /\ []EmailsUnique
    /\ [][ (last'.op \in {"add_user", "update_user"} /\ last'.res = "exists")
            => UNCHANGED store ]_vars

\* a change of email to the email of the other user was turned down
C11_Witness ==
    /\ last.op = "update_user" /\ last.res = "exists"
    /\ Cardinality(DOMAIN users) = 2

\* C12: an add_product that does not report success leaves the products unchanged, and
\* one that does adds exactly one product, with a non-empty stripped name, a price > 0
\* and a stock_quantity >= 0.
C12_AddProductValidates ==
    [][ last'.op = "add_product" =>
            IF last'.res = "ok" THEN
                /\ \A p \in DOMAIN products :
                        p \in DOMAIN products' /\ products'[p] = products[p]
                /\ \E id \in DOMAIN products' \ DOMAIN products :
                    /\ DOMAIN products' = DOMAIN products \cup {id}
                    /\ products'[id].name # <<>>
                    /\ strip(products'[id].name) = products'[id].name
                    /\ products'[id].price > 0
                    /\ products'[id].stock_quantity >= 0
            ELSE products' = products
      ]_vars

\* add_product turned an entry down while the store had a product
C12_Witness ==
    last.op = "add_product" /\ last.res = "invalid" /\ DOMAIN products # {}

\* C13: in every state every order item has quantity > 0 and every product has
\* price > 0, and so has every line of the cart of a running sale.
C13_PositiveQuantityAndPrice ==
    /\ \A i \in DOMAIN order_items : order_items[i].quantity > 0
    /\ \A p \in DOMAIN products : products[p].price > 0
    /\ \A k \in 1 .. Len(items) : items[k].quantity > 0 /\ items[k].unit_price > 0

\* a price was updated in a store that holds order items
C13_Witness ==
    last.op = "update_product" /\ last.res = "ok_price" /\ DOMAIN order_items # {}

\* C14: an update_product that is turned down, canceled or fails leaves the store
\* unchanged; an accepted one changes the one field it reports of one product, and
\* nothing else in the store.
C14_UpdateProductFrame ==
    [][ last'.op = "update_product" =>
            /\ UNCHANGED <<users, orders, order_items>>
            /\ DOMAIN products' = DOMAIN products
            /\ IF last'.res \notin {"ok_name", "ok_price", "ok_stock"} THEN
                    products' = products
               ELSE \E id \in DOMAIN products :
                    /\ \A p \in DOMAIN products \ {id} : products'[p] = products[p]
                    /\ last'.res = "ok_name" =>
                            products'[id] = [products[id] EXCEPT !.name = products'[id].name]
                    /\ last'.res = "ok_price" =>
                            products'[id] = [products[id] EXCEPT !.price = products'[id].price]
                    /\ last'.res = "ok_stock" =>
                            products'[id] = [products[id] EXCEPT
                                                !.stock_quantity = products'[id].stock_quantity]
      ]_vars

\* a price was updated in a store with two products whose prices differ
C14_Witness ==
    /\ last.op = "update_product" /\ last.res = "ok_price"
    /\ \E p, q \in DOMAIN products : products[p].price # products[q].price

\* C16: a sale started in a store without users returns at once ("no user"), with an
\* empty cart, no Order and the store it started from.
C16_SaleWithoutUser ==
    (last.op \in {"process_sale", "cart_line"} /\ DOMAIN preUsers = {}) =>
        /\ SaleReturned("no_user")
        /\ store = pre
        /\ user = 0 /\ order = 0 /\ items = <<>>

\* a sale was refused for want of a user while the store had stock to sell
C16_Witness ==
    /\ SaleReturned("no_user")
    /\ \E p \in DOMAIN products : products[p].stock_quantity > 0

\* C17: the unit_price of the order items of a sale is the price their product had
\* when the sale was made, and no later step, update_product of the price included,
\* changes the unit_price of an order item or the total_amount of an order.
C17_UnitPriceIsHistorical ==
    /\ [](SaleReturned("ok") =>
            \A k \in 1 .. Len(items) :
                order_items[NextId(preOrderItems) + k - 1].unit_price =
                    preProducts[items[k].product].price)
    /\ [][ /\ \A i \in DOMAIN order_items \cap DOMAIN order_items' :
                    order_items'[i].unit_price = order_items[i].unit_price
            /\ \A o \in DOMAIN orders \cap DOMAIN orders' :
                    orders'[o].total_amount = orders[o].total_amount
            /\ last'.op = "update_product" => (order_items' = order_items /\ orders' = orders)
          ]_vars

\* after a sale the price of a sold product was updated, and differs from the unit_price
C17_Witness ==
    /\ last.op = "update_product" /\ last.res = "ok_price"
    /\ \E i \in DOMAIN order_items :
        /\ order_items[i].product_id \in DOMAIN products
        /\ order_items[i].unit_price # products[order_items[i].product_id].price

\* C20: in no state of the store does the Order of a sale exist without its order
\* items and its stock decrements.
C20_OrderDurableWithItems ==
    (last.op = "process_sale" /\ order \in DOMAIN orders) =>
        /\ OrderItemsOfOrder(order) # {}
        /\ \A p \in DOMAIN products :
                products[p].stock_quantity =
                    preProducts[p].stock_quantity - Requested(items, p)

\* C15: the Order of a sale has status 'completed' and is owned by the user the sale is
\* made for, and an Order added without a status has status 'pending'.
C15_OrderStatusAndOwner ==
    /\ (last.op = "process_sale" /\ order \in DOMAIN orders) =>
            /\ orders[order].status = "completed"
            /\ orders[order].user_id = user
            /\ user \in DOMAIN users
    /\ (last.op = "add_order" /\ last.res = NoStatus) =>
            orders[last.a].status = "pending"
    /\ (last.op = "add_order" /\ last.res = "completed") =>
            orders[last.a].status = "completed"

\* an Order added without a status stands next to the completed Order of a sale
C15_Witness ==
    /\ last.op = "add_order" /\ last.res = NoStatus
    /\ \E o \in DOMAIN orders : orders[o].status = "completed" /\ OrderItemsOfOrder(o) # {}

\* C18: deleting an Order removes that order and exactly its order items: none with its
\* order_id remains, and the orders and order items of every other order are as before.
C18_DeleteOrderCascade ==
    [][ (last'.op = "delete_order" /\ last'.res = "ok") =>
            /\ last'.a \in DOMAIN orders
            /\ DOMAIN orders' = DOMAIN orders \ {last'.a}
            /\ \A o \in DOMAIN orders' : orders'[o] = orders[o]
            /\ \A i \in DOMAIN order_items' : order_items'[i].order_id # last'.a
            /\ \A i \in DOMAIN order_items :
                    order_items[i].order_id # last'.a =>
                        i \in DOMAIN order_items' /\ order_items'[i] = order_items[i]
            /\ DOMAIN order_items' \subseteq DOMAIN order_items
      ]_vars

\* an Order with order items was deleted, and the order items of another order remain
C18_Witness ==
    /\ last.op = "delete_order" /\ last.res = "ok" /\ last.b > 0
    /\ DOMAIN order_items # {}

\* C19: deleting an Order leaves the products as they are: no stock is handed back and
\* no product is deleted.
C19_DeleteOrderKeepsStock ==
    [][ last'.op = "delete_order" => products' = products ]_vars

\* the last Order was deleted with its order items, and a product that a sale took
\* stock from is still below its initial stock
C19_Witness ==
    /\ last.op = "delete_order" /\ last.res = "ok" /\ last.b > 0
    /\ DOMAIN orders = {}
    /\ \E p \in DOMAIN products : products[p].stock_quantity < MaxStock

\* C21: between the stock check of a cart line and the stock decrement of its sale no
\* other writer takes the stock away: when the items are written every line of the cart
\* still fits the stock of its product, and two sales never sell more than there was.
C21_NoOversellAcrossSales ==
    /\ pc = "items" =>
            \A k \in 1 .. Len(items) :
                items[k].quantity <= products[items[k].product].stock_quantity
    /\ (Len(items) <= 1 /\ SaleReturned("ok")) =>
            \A p \in DOMAIN products : products[p].stock_quantity >= 0

\* the operations of the menus that only read
Reads ==
    { "list_products", "list_users", "daily_sales_report", "product_inventory_report",
      "customer_purchases_report" }

\* a listing holds every row of the table once, as stored, by ascending id
IsListingOf(rows, table) ==
    /\ { rows[k].id : k \in 1 .. Len(rows) } = DOMAIN table
    /\ \A k \in 1 .. Len(rows) : rows[k].row = table[rows[k].id]
    /\ \A j, k \in 1 .. Len(rows) : j < k => rows[j].id < rows[k].id

CompletedOrders == { o \in DOMAIN orders : orders[o].status = "completed" }

\* sum of total_amount over a set of orders
RECURSIVE Revenue(_)
Revenue(S) ==
    IF S = {} THEN 0
    ELSE LET o == CHOOSE x \in S : TRUE IN orders[o].total_amount + Revenue(S \ {o})

\* summed quantity of a set of order items
RECURSIVE Quantity(_)
Quantity(S) ==
    IF S = {} THEN 0
    ELSE LET i == CHOOSE x \in S : TRUE IN order_items[i].quantity + Quantity(S \ {i})

\* C23: render_dashboard returns the number of active users, the number of completed
\* orders and the sum of their total_amount; the value it returns is last.a.
C23_DashboardTotals ==
    last.op = "render_dashboard" =>
        /\ last.res = "returned"
        /\ last.a.total_users = Cardinality({ u \in DOMAIN users : users[u].is_active })
        /\ last.a.total_orders = Cardinality(CompletedOrders)
        /\ last.a.revenue = Revenue(CompletedOrders)

\* C24: render_dashboard returns at most 5 top products, each once, each in an order
\* item, by descending summed quantity of their order items.
C24_DashboardTopProducts ==
    last.op = "render_dashboard" =>
        /\ last.res = "returned"
        /\ LET top == last.a.top_products IN
            /\ Len(top) <= 5
            /\ \A j, k \in 1 .. Len(top) : j # k => top[j].id # top[k].id
            /\ \A k \in 1 .. Len(top) :
                /\ OrderItemsOfProduct(top[k].id) # {}
                /\ top[k].quantity_sold = Quantity(OrderItemsOfProduct(top[k].id))
            /\ \A j, k \in 1 .. Len(top) :
                    j < k => top[j].quantity_sold >= top[k].quantity_sold

\* C25: display_report(order_id) does not raise and leaves the store alone; for an id
\* of no order it returns the error value, for an order its id, status, owner name,
\* total_amount and the items of that order.
C25_ReportOfOneOrder ==
    (last.op = "display_report" /\ last.b # NoOrderId) =>
        /\ store = pre
        /\ last.res # "raised"
        /\ last.b \notin DOMAIN orders => last.res = "not_found"
        /\ last.b \in DOMAIN orders =>
            /\ last.res = "returned"
            /\ last.a.order_id = last.b
            /\ last.a.status = orders[last.b].status
            /\ last.a.user_name = users[orders[last.b].user_id].name
            /\ last.a.total_amount = orders[last.b].total_amount
            /\ Len(last.a.items) = Cardinality(OrderItemsOfOrder(last.b))

\* C26: display_report() returns the number of completed orders, an average order
\* value that is 0 when there is none, and at most 5 recent orders, all completed.
C26_ReportSummary ==
    (last.op = "display_report" /\ last.b = NoOrderId) =>
        /\ last.res = "returned"
        /\ last.a.total_completed_orders = Cardinality(CompletedOrders)
        /\ CompletedOrders = {} => last.a.average_order_value = 0
        /\ Len(last.a.recent_orders) <= 5
        /\ \A k \in 1 .. Len(last.a.recent_orders) :
                last.a.recent_orders[k].id \in CompletedOrders

\* C27: in every state every Order's user_id is the id of a User, and every
\* OrderItem's order_id the id of an Order and its product_id the id of a Product.
C27_ReferentialIntegrity ==
    /\ \A o \in DOMAIN orders : orders[o].user_id \in DOMAIN users
    /\ \A i \in DOMAIN order_items :
        /\ order_items[i].order_id \in DOMAIN orders
        /\ order_items[i].product_id \in DOMAIN products

\* after a sale, the deletion of the user who owns the order was asked for, in a store
\* with a second product that no order item references
C27_Witness ==
    /\ last.op = "delete_user" /\ last.res = "referenced"
    /\ DOMAIN order_items # {}
    /\ \E p \in DOMAIN products : OrderItemsOfProduct(p) = {}

\* C29: a sale, a delete_product or a delete_user whose confirmation prompt is answered
\* with anything but 'y' reports the cancellation and writes nothing, whatever the
\* cart holds; a sale goes on to its writes only after the answer 'y'.
C29_DeclinedWritesNothing ==
    /\ [](pc = "items" => last.b = 1)
    /\ []((pc = "menu" /\ last.op = "process_sale" /\ last.b = 0
                /\ last.res \notin {"no_user", "empty"})
            => (last.res = "canceled" /\ store = pre /\ order = 0))
    /\ [][ (last'.op \in {"delete_product", "delete_user"} /\ last'.b = 0
                /\ last'.res \notin {"invalid", "not_found"})
            => (last'.res = "canceled" /\ UNCHANGED store) ]_vars

\* a sale with two lines in its cart was declined
C29_Witness ==
    SaleReturned("canceled") /\ Len(items) = 2 /\ last.b = 0

\* C28: no operation of the application changes a committed order's owning user,
\* total_amount or status, or the order, product, quantity or unit_price of any of its
\* order items: every Order row and every OrderItem row that exists before a sale, a
\* product or user update or a delete is there, with the same fields, after it.
C28_OrdersImmutable ==
    [][ /\ \A o \in DOMAIN orders : o \in DOMAIN orders' /\ orders'[o] = orders[o]
        /\ \A i \in DOMAIN order_items :
                i \in DOMAIN order_items' /\ order_items'[i] = order_items[i] ]_vars

\* after two sales a user's email was updated, and a product sold before no longer has
\* the price it was sold at
C28_Witness ==
    /\ last.op = "update_user" /\ last.res = "ok_email"
    /\ Cardinality(DOMAIN orders) = 2
    /\ \E i \in DOMAIN order_items :
            /\ order_items[i].product_id \in DOMAIN products
            /\ order_items[i].unit_price # products[order_items[i].product_id].price
====
